---- MODULE Spec2Model ----
(***************************************************************************)
(* Model of main.py of phonemefix: the IPA normaliser (normalize_ipa), the *)
(* repeat collapser (collapse_repeats), the phonological rule engine       *)
(* (apply_rules), the RuleConfig schema and the /pipeline endpoint         *)
(* (run_pipeline).                                                         *)
(*                                                                         *)
(* A Python str is a sequence of characters; a character is a TLA+ string  *)
(* naming one code point.  A token is a whitespace-free str, so a token is *)
(* a sequence of characters too, and a token list is a sequence of such.   *)
(***************************************************************************)
EXTENDS Integers, Sequences, FiniteSets

VARIABLES
    pc,              \* position of the running operation
    rules,           \* the RuleConfig in force (rule_cfg / rules)
    raw_ipa,         \* apply_rules' argument; run_pipeline's raw_ipa
    toks,            \* apply_rules: toks
    i,               \* apply_rules: loop index (1-based)
    out,             \* apply_rules: out
    corrected,       \* apply_rules: corrected
    rewrote,         \* rule families that rewrote the token of the last iteration
    corrected_ipa,   \* value returned by apply_rules
    ipa_seq,         \* normalize_ipa's argument
    normalized_ipa,  \* value returned by normalize_ipa
    renormalized,    \* normalize_ipa applied to its own output
    tokens,          \* collapse_repeats' argument
    once,            \* collapse_repeats(tokens)
    twice,           \* collapse_repeats(once)
    submitted,       \* the parsed JSON of the request's rules form field
    text,            \* what the wav2vec2 processor decodes for the request's audio
    final_text,      \* value returned by decode_ipa_to_text
    response,        \* the PipelineResponse
    trace            \* the pipeline stages run so far, in order

vars == <<pc, rules, raw_ipa, toks, i, out, corrected, rewrote, corrected_ipa,
          ipa_seq, normalized_ipa, renormalized, tokens, once, twice,
          submitted, text, final_text, response, trace>>

(***************************************************************************)
(* Bounds of the model.                                                    *)
(***************************************************************************)
\* longest token list handed to apply_rules
MaxToks == 3
\* longest token list handed to collapse_repeats on its own
MaxCollapseLen == 4
\* longest string (in characters, spaces included) handed to normalize_ipa
MaxNormLen == 4
\* longest decoded phoneme text (in characters) of a pipeline request
MaxTextLen == 3

(***************************************************************************)
(* Characters.                                                             *)
(***************************************************************************)
\* the space that separates tokens
SP == " "
\* U+0279 LATIN SMALL LETTER TURNED R
TurnedR == "turned_r"
\* U+02C8 MODIFIER LETTER VERTICAL LINE (primary stress)
Stress1 == "stress1"
\* U+02CC MODIFIER LETTER LOW VERTICAL LINE (secondary stress)
Stress2 == "stress2"
\* U+02B0 MODIFIER LETTER SMALL H (aspiration)
Aspir == "aspiration"
\* U+0320 COMBINING MINUS SIGN BELOW (retraction)
Retr == "retracted"
\* U+0329 COMBINING VERTICAL LINE BELOW (syllabic)
Syll == "syllabic"
\* U+0303 COMBINING TILDE (nasalization)
Nasal == "nasalized"

\* the one-character token c
Tok(c) == <<c>>

Bar == Tok("|")

\* VOWELS: a e i o u, ae, turned v, small capital i, upsilon, schwa,
\* open e, open o, script a, reversed open e, turned script a
VOWELS ==
    {Tok("a"), Tok("e"), Tok("i"), Tok("o"), Tok("u"),
     Tok("ae"), Tok("turned_v"), Tok("small_cap_i"), Tok("upsilon"),
     Tok("schwa"), Tok("open_e"), Tok("open_o"), Tok("script_a"),
     Tok("rev_open_e"), Tok("turned_script_a")}

(***************************************************************************)
(* str.split(), " ".join() and str.replace() and str.strip().              *)
(***************************************************************************)
RECURSIVE SplitFrom(_, _, _)
SplitFrom(s, k, cur) ==
    IF k > Len(s)
    THEN IF cur = <<>> THEN <<>> ELSE <<cur>>
    ELSE IF s[k] = SP
         THEN IF cur = <<>>
              THEN SplitFrom(s, k + 1, <<>>)
              ELSE <<cur>> \o SplitFrom(s, k + 1, <<>>)
         ELSE SplitFrom(s, k + 1, Append(cur, s[k]))

split(s) == SplitFrom(s, 1, <<>>)

RECURSIVE join(_)
join(ts) ==
    IF ts = <<>> THEN <<>>
    ELSE IF Len(ts) = 1 THEN ts[1]
    ELSE ts[1] \o <<SP>> \o join(Tail(ts))

RECURSIVE replace(_, _, _)
replace(s, old, new) ==
    IF Len(s) < Len(old) THEN s
    ELSE IF SubSeq(s, 1, Len(old)) = old
         THEN new \o replace(SubSeq(s, Len(old) + 1, Len(s)), old, new)
         ELSE <<Head(s)>> \o replace(Tail(s), old, new)

RECURSIVE lstrip(_)
lstrip(s) == IF s # <<>> /\ Head(s) = SP THEN lstrip(Tail(s)) ELSE s

RECURSIVE rstrip(_)
rstrip(s) ==
    IF s # <<>> /\ s[Len(s)] = SP THEN rstrip(SubSeq(s, 1, Len(s) - 1)) ELSE s

strip(s) == rstrip(lstrip(s))

(***************************************************************************)
(* normalize_ipa                                                           *)
(***************************************************************************)
\* NormalizeToken without the nasalization offload
NormalizeToken_KeepNasal(p) ==
    LET p1 == replace(replace(p, <<Stress1>>, <<>>), <<Stress2>>, <<>>)
        p2 == replace(replace(p1, <<"t", Aspir>>, <<"t">>), <<"t", Retr>>, <<"t">>)
        p3 == replace(p2, <<"d", Retr>>, <<"d">>)
    IN  replace(replace(p3, <<TurnedR, Syll>>, <<TurnedR>>), <<"l", Syll>>, <<"l">>)

\* the body of normalize_ipa's loop: the ordered replacements on one token
NormalizeToken(p) ==
    LET p1 == replace(replace(p, <<Stress1>>, <<>>), <<Stress2>>, <<>>)
        p2 == replace(replace(p1, <<"t", Aspir>>, <<"t">>), <<"t", Retr>>, <<"t">>)
        p3 == replace(p2, <<"d", Retr>>, <<"d">>)
        p4 == replace(replace(p3, <<TurnedR, Syll>>, <<TurnedR>>), <<"l", Syll>>, <<"l">>)
    IN  replace(p4, <<Nasal>>, <<>>)

normalize_ipa(s) ==
    LET ts == split(s)
    IN  join([k \in 1..Len(ts) |-> NormalizeToken(ts[k])])

(***************************************************************************)
(* collapse_repeats                                                        *)
(***************************************************************************)
\* CollapseInto without the exception for the boundary marker
RECURSIVE CollapseInto_AnyToken(_, _)
CollapseInto_AnyToken(o, rest) ==
    IF rest = <<>> THEN o
    ELSE LET t == Head(rest)
         IN  IF t = o[Len(o)]
             THEN CollapseInto_AnyToken(o, Tail(rest))
             ELSE CollapseInto_AnyToken(Append(o, t), Tail(rest))

\* the loop of collapse_repeats: o is out, rest the tokens still to visit
RECURSIVE CollapseInto(_, _)
CollapseInto(o, rest) ==
    IF rest = <<>> THEN o
    ELSE LET t == Head(rest)
         IN  IF t = o[Len(o)] /\ t # Bar
             THEN CollapseInto(o, Tail(rest))
             ELSE CollapseInto(Append(o, t), Tail(rest))

\* collapse_repeats comparing the tokens pair by pair instead of against out[-1]
RECURSIVE collapse_repeats_Pairwise(_)
collapse_repeats_Pairwise(ts) ==
    IF Len(ts) < 2 THEN ts
    ELSE IF ts[1] = ts[2] /\ ts[1] # Bar
         THEN <<ts[1]>> \o collapse_repeats_Pairwise(SubSeq(ts, 3, Len(ts)))
         ELSE <<ts[1]>> \o collapse_repeats_Pairwise(Tail(ts))

collapse_repeats(ts) ==
    IF ts = <<>> THEN ts ELSE CollapseInto(<<ts[1]>>, Tail(ts))

(***************************************************************************)
(* RuleConfig, GlidingRules, StoppingRules                                 *)
(***************************************************************************)
GlidingKeys == {"w_to_r", "l_to_w", "r_to_w"}

StoppingKeys == {"s_to_t", "z_to_d"}

RuleConfigKeys == {"gliding", "stopping", "cluster_reduction"}

GlidingRules == [w_to_r : BOOLEAN, l_to_w : BOOLEAN, r_to_w : BOOLEAN]

StoppingRules == [s_to_t : BOOLEAN, z_to_d : BOOLEAN]

RuleConfig ==
    [gliding : GlidingRules, stopping : StoppingRules, cluster_reduction : BOOLEAN]

\* the configuration with every switch off
AllDisabled ==
    [gliding |-> [w_to_r |-> FALSE, l_to_w |-> FALSE, r_to_w |-> FALSE],
     stopping |-> [s_to_t |-> FALSE, z_to_d |-> FALSE],
     cluster_reduction |-> FALSE]

(***************************************************************************)
(* apply_rules                                                             *)
(***************************************************************************)
\* next_sym / next_is_vowel of iteration k (1-based) over ts
next_is_vowel(ts, k) ==
    IF k + 1 <= Len(ts) THEN ts[k + 1] \in VOWELS ELSE FALSE

\* Gliding testing w_to_r / r_to_w before l_to_w
Gliding_RFirst(p, niv, r) ==
    IF p = Tok("w")
    THEN IF (r.gliding.w_to_r \/ r.gliding.r_to_w) /\ niv
         THEN Tok(TurnedR)
         ELSE IF r.gliding.l_to_w /\ niv
              THEN Tok("l")
              ELSE p
    ELSE p

\* Gliding writing t where it should write l
Gliding_WritesT(p, niv, r) ==
    IF p = Tok("w")
    THEN IF r.gliding.l_to_w /\ niv
         THEN Tok("t")
         ELSE IF (r.gliding.w_to_r \/ r.gliding.r_to_w) /\ niv
              THEN Tok(TurnedR)
              ELSE p
    ELSE p

\* the GLIDING block on the token slot p
Gliding(p, niv, r) ==
    IF p = Tok("w")
    THEN IF r.gliding.l_to_w /\ niv
         THEN Tok("l")
         ELSE IF (r.gliding.w_to_r \/ r.gliding.r_to_w) /\ niv
              THEN Tok(TurnedR)
              ELSE p
    ELSE p

\* Stopping that rewrites t whether or not s_to_t is set
Stopping_IgnoresSwitch(p, r) ==
    LET p1 == IF p = Tok("t") THEN Tok("s") ELSE p
    IN  IF r.stopping.z_to_d /\ p1 = Tok("d") THEN Tok("z") ELSE p1

\* the STOPPING block on the token slot p
Stopping(p, r) ==
    LET p1 == IF r.stopping.s_to_t /\ p = Tok("t") THEN Tok("s") ELSE p
    IN  IF r.stopping.z_to_d /\ p1 = Tok("d") THEN Tok("z") ELSE p1

\* what one iteration of the first loop appends for ts[k]
FirstPassToken(ts, k, r) ==
    IF ts[k] = Bar
    THEN Bar
    ELSE Stopping(Gliding(ts[k], next_is_vowel(ts, k), r), r)

FirstPass(ts, r) == [k \in 1..Len(ts) |-> FirstPassToken(ts, k, r)]

\* ClusterEmit that looks for a preceding s only, not for a boundary marker
ClusterEmit_AfterBoundary(c, p) ==
    IF p = Bar \/ c = <<>>
    THEN Append(c, p)
    ELSE IF p = Tok("p") /\ c[Len(c)] # Tok("s")
         THEN c \o <<Tok("s"), Tok("p")>>
         ELSE Append(c, p)

\* what one iteration of the cluster-reduction loop makes of corrected
ClusterEmit(c, p) ==
    IF p = Bar \/ c = <<>>
    THEN Append(c, p)
    ELSE IF p = Tok("p") /\ c[Len(c)] \notin {Tok("s"), Bar}
         THEN c \o <<Tok("s"), Tok("p")>>
         ELSE Append(c, p)

RECURSIVE ClusterInto(_, _)
ClusterInto(c, rest) ==
    IF rest = <<>> THEN c ELSE ClusterInto(ClusterEmit(c, Head(rest)), Tail(rest))

ClusterPass(o) == ClusterInto(<<>>, o)

apply_rules(s, r) ==
    LET o1 == FirstPass(split(s), r)
        o2 == IF r.cluster_reduction THEN ClusterPass(o1) ELSE o1
    IN  join(collapse_repeats(o2))

(***************************************************************************)
(* Input domains.                                                          *)
(***************************************************************************)
\* the sequences over S of length at most n
BSeq(S, n) == UNION {[1..k -> S] : k \in 0..n}

\* tokens the rule engine is driven with: the glide, a vowel, the two stops,
\* the cluster onset, the fricative and the boundary marker
RuleTokens ==
    {Tok("w"), Tok("a"), Tok("t"), Tok("d"), Tok("p"), Tok("s"), Bar}

\* characters normalize_ipa is driven with
NormChars ==
    {"t", "d", TurnedR, "l", Stress1, Stress2, Aspir, Retr, Syll, Nasal, SP}

\* characters of a pipeline request's decoded phoneme text
TextChars == {"t", Aspir, SP}

(***************************************************************************)
(* The state of an operation that is not running.                          *)
(***************************************************************************)
RulesIdle ==
    /\ toks = <<>> /\ i = 0 /\ out = <<>> /\ corrected = <<>>
    /\ rewrote = {}

NormIdle == ipa_seq = <<>> /\ renormalized = <<>>

CollapseIdle == tokens = <<>> /\ once = <<>> /\ twice = <<>>

PipeIdle ==
    /\ submitted = <<>> /\ text = <<>> /\ final_text = <<>>
    /\ response = <<>> /\ trace = <<>>

rulesLocals == <<toks, i, out, corrected, rewrote>>

normVars == <<ipa_seq, renormalized>>

collapseVars == <<tokens, once, twice>>

pipeVars == <<submitted, text, final_text, response, trace>>

(***************************************************************************)
(* apply_rules, statement by statement.                                    *)
(***************************************************************************)
InitRules ==
    /\ pc = "split"
    /\ rules \in RuleConfig
    /\ raw_ipa \in {join(ts) : ts \in BSeq(RuleTokens, MaxToks)}
    /\ corrected_ipa = <<>> /\ normalized_ipa = <<>>
    /\ RulesIdle /\ NormIdle /\ CollapseIdle /\ PipeIdle

\* toks = raw_ipa.split(); out = []
SplitInput ==
    /\ pc = "split"
    /\ toks' = split(raw_ipa)
    /\ out' = <<>>
    /\ i' = 1
    /\ pc' = "pass1"
    /\ UNCHANGED <<rules, raw_ipa, corrected, rewrote, corrected_ipa,
                   normalized_ipa, normVars, collapseVars, pipeVars>>

\* one iteration of the first loop on a boundary marker
KeepBoundary ==
    /\ pc = "pass1" /\ i <= Len(toks)
    /\ toks[i] = Bar
    /\ out' = Append(out, toks[i])
    /\ rewrote' = {}
    /\ i' = i + 1
    /\ UNCHANGED <<pc, rules, raw_ipa, toks, corrected, corrected_ipa,
                   normalized_ipa, normVars, collapseVars, pipeVars>>

\* one iteration of the first loop on any other token
RewriteToken ==
    /\ pc = "pass1" /\ i <= Len(toks)
    /\ toks[i] # Bar
    /\ LET g == Gliding(toks[i], next_is_vowel(toks, i), rules)
           p == Stopping(g, rules)
       IN  /\ out' = Append(out, p)
           /\ rewrote' = (IF g # toks[i] THEN {"gliding"} ELSE {})
                            \cup (IF p # g THEN {"stopping"} ELSE {})
    /\ i' = i + 1
    /\ UNCHANGED <<pc, rules, raw_ipa, toks, corrected, corrected_ipa,
                   normalized_ipa, normVars, collapseVars, pipeVars>>

\* the first loop is over and rules.cluster_reduction is set: corrected = []
EnterCluster ==
    /\ pc = "pass1" /\ i > Len(toks)
    /\ rules.cluster_reduction
    /\ corrected' = <<>>
    /\ i' = 1
    /\ pc' = "cluster"
    /\ UNCHANGED <<rules, raw_ipa, toks, out, rewrote, corrected_ipa,
                   normalized_ipa, normVars, collapseVars, pipeVars>>

\* the first loop is over and rules.cluster_reduction is not set
SkipCluster ==
    /\ pc = "pass1" /\ i > Len(toks)
    /\ ~rules.cluster_reduction
    /\ pc' = "collapse"
    /\ UNCHANGED <<rules, raw_ipa, toks, i, out, corrected, rewrote,
                   corrected_ipa, normalized_ipa, normVars, collapseVars,
                   pipeVars>>

\* one iteration of the cluster-reduction loop
ClusterStep ==
    /\ pc = "cluster" /\ i <= Len(out)
    /\ corrected' = ClusterEmit(corrected, out[i])
    /\ i' = i + 1
    /\ UNCHANGED <<pc, rules, raw_ipa, toks, out, rewrote, corrected_ipa,
                   normalized_ipa, normVars, collapseVars, pipeVars>>

\* out = corrected
LeaveCluster ==
    /\ pc = "cluster" /\ i > Len(out)
    /\ out' = corrected
    /\ pc' = "collapse"
    /\ UNCHANGED <<rules, raw_ipa, toks, i, corrected, rewrote, corrected_ipa,
                   normalized_ipa, normVars, collapseVars, pipeVars>>

\* out = collapse_repeats(out); return " ".join(out)
CollapseAndReturn ==
    /\ pc = "collapse"
    /\ out' = collapse_repeats(out)
    /\ corrected_ipa' = join(out')
    /\ pc' = "returned"
    /\ UNCHANGED <<rules, raw_ipa, toks, i, corrected, rewrote,
                   normalized_ipa, normVars, collapseVars, pipeVars>>

NextRules ==
    \/ SplitInput
    \/ KeepBoundary
    \/ RewriteToken
    \/ EnterCluster
    \/ SkipCluster
    \/ ClusterStep
    \/ LeaveCluster
    \/ CollapseAndReturn

SpecRules == InitRules /\ [][NextRules]_vars

(***************************************************************************)
(* Properties of apply_rules (checked under SpecRules).                    *)
(***************************************************************************)
\* how many times token t occurs in ts
Count(ts, t) == Cardinality({k \in 1..Len(ts) : ts[k] = t})

\* ts cut at its boundary markers: Count(ts, Bar) + 1 runs of other tokens
RECURSIVE SegmentsFrom(_, _, _)
SegmentsFrom(ts, k, cur) ==
    IF k > Len(ts) THEN <<cur>>
    ELSE IF ts[k] = Bar
         THEN <<cur>> \o SegmentsFrom(ts, k + 1, <<>>)
         ELSE SegmentsFrom(ts, k + 1, Append(cur, ts[k]))

Segments(ts) == SegmentsFrom(ts, 1, <<>>)

\* C1: boundary preservation.  No pass creates or deletes a boundary marker
\* (the first loop, the cluster loop and collapse_repeats each keep the count
\* of the part they have consumed), the output has as many markers as the
\* input, and the markers keep their place among the other tokens: the run of
\* output tokens between two markers is what the engine derives from the run
\* of input tokens between the same two markers.
C1_BoundaryPreserved ==
    /\ pc = "pass1" => Count(out, Bar) = Count(SubSeq(toks, 1, i - 1), Bar)
    /\ pc = "cluster" => Count(corrected, Bar) = Count(SubSeq(out, 1, i - 1), Bar)
    /\ pc = "collapse" => Count(out, Bar) = Count(toks, Bar)
    /\ pc = "returned" =>
         LET o == split(corrected_ipa)
             segs == Segments(toks)
         IN  /\ Count(o, Bar) = Count(toks, Bar)
             /\ Segments(o) =
                  [k \in 1..Len(segs) |-> split(apply_rules(join(segs[k]), rules))]

\* an input with a boundary marker whose output is longer than the input
C1_Witness ==
    /\ pc = "returned"
    /\ Count(toks, Bar) >= 1
    /\ Len(split(corrected_ipa)) > Len(toks)

\* C2: with every switch disabled apply_rules returns collapse_repeats of the
\* input tokens, joined: nothing is rewritten or inserted.
C2_NoOpConfiguration ==
    (pc = "returned" /\ rules = AllDisabled) =>
        /\ corrected_ipa = join(collapse_repeats(split(raw_ipa)))
        /\ split(corrected_ipa) = collapse_repeats(toks)

\* every switch disabled, an input with a stop and a repeat that is collapsed
C2_Witness ==
    /\ pc = "returned" /\ rules = AllDisabled
    /\ Count(toks, Tok("t")) >= 1
    /\ Len(split(corrected_ipa)) < Len(toks)

\* C3: in the first pass a w before a vowel becomes l when l_to_w is enabled,
\* else turned r when w_to_r or r_to_w is enabled, else stays w; a w that is
\* last or stands before a non-vowel or a boundary marker stays w.
C3_GlidingOfW ==
    pc = "pass1" =>
        \A k \in 1..Len(out) :
            toks[k] = Tok("w") =>
                LET vowelNext == k < Len(toks) /\ toks[k + 1] \in VOWELS
                    g == rules.gliding
                IN  /\ (vowelNext /\ g.l_to_w) => out[k] = Tok("l")
                    /\ (vowelNext /\ ~g.l_to_w /\ (g.w_to_r \/ g.r_to_w))
                          => out[k] = Tok(TurnedR)
                    /\ (vowelNext /\ ~g.l_to_w /\ ~g.w_to_r /\ ~g.r_to_w)
                          => out[k] = Tok("w")
                    /\ ~vowelNext => out[k] = Tok("w")

\* a w before a vowel rewritten to l although w_to_r and r_to_w are enabled too
C3_Witness ==
    /\ pc = "pass1"
    /\ rules.gliding.l_to_w /\ rules.gliding.w_to_r /\ rules.gliding.r_to_w
    /\ \E k \in 1..Len(out) : toks[k] = Tok("w") /\ out[k] = Tok("l")

\* the positions of o that the cluster loop puts an s in front of
NeedsS(o) ==
    {k \in 2..Len(o) : o[k] = Tok("p") /\ o[k - 1] \notin {Tok("s"), Bar}}

\* C4: with cluster_reduction enabled the second pass emits one s before
\* every p whose preceding emitted token is neither s nor a boundary marker
\* and nothing else, so in the final output every p with a predecessor follows
\* s or a boundary marker; with cluster_reduction disabled no s is inserted.
C4_ClusterReduction ==
    /\ pc = "cluster" =>
         /\ i > 1 => corrected[Len(corrected)] = out[i - 1]
         /\ Len(corrected) = (i - 1) + Cardinality(NeedsS(SubSeq(out, 1, i - 1)))
         /\ \A k \in 2..Len(corrected) :
                corrected[k] = Tok("p") => corrected[k - 1] \in {Tok("s"), Bar}
    /\ (pc = "returned" /\ rules.cluster_reduction) =>
         \A k \in 2..Len(out) : out[k] = Tok("p") => out[k - 1] \in {Tok("s"), Bar}
    /\ (pc = "collapse" /\ ~rules.cluster_reduction) =>
         /\ Len(out) = Len(toks)
         /\ Count(out, Tok("s")) =
              Count(toks, Tok("s"))
                + (IF rules.stopping.s_to_t THEN Count(toks, Tok("t")) ELSE 0)

\* the engine returned an output with an inserted s
C4_Witness ==
    /\ pc = "returned" /\ rules.cluster_reduction
    /\ NeedsS(FirstPass(toks, rules)) # {}
    /\ Len(out) > Len(toks)

\* C9 as amended: the gliding check and the stopping checks act on the same
\* slot in that order, yet no token is rewritten by both families: at most
\* one family rewrites the token of an iteration.
C9_AtMostOneFamily == Cardinality(rewrote) <= 1

\* an iteration in which gliding rewrote the token and both stopping checks,
\* enabled, then ran on the rewritten slot
C9_Witness ==
    /\ pc = "pass1"
    /\ rewrote = {"gliding"}
    /\ rules.stopping.s_to_t /\ rules.stopping.z_to_d

\* C9 as claimed: whatever input the engine is about to process, some token
\* and configuration exist for which the gliding check rewrites the token and
\* a stopping check then rewrites the resulting symbol again.
C9_BothFamiliesRewrite ==
    pc = "split" =>
    \E p \in RuleTokens \cup {Tok("l"), Tok(TurnedR), Tok("z")}, niv \in BOOLEAN, r \in RuleConfig :
        /\ Gliding(p, niv, r) # p
        /\ Stopping(Gliding(p, niv, r), r) # Gliding(p, niv, r)

(***************************************************************************)
(* collapse_repeats on its own, applied and applied again.                 *)
(***************************************************************************)
InitCollapse ==
    /\ pc = "c_start"
    /\ tokens \in BSeq(RuleTokens, MaxCollapseLen)
    /\ once = <<>> /\ twice = <<>>
    /\ rules = AllDisabled /\ raw_ipa = <<>>
    /\ corrected_ipa = <<>> /\ normalized_ipa = <<>>
    /\ RulesIdle /\ NormIdle /\ PipeIdle

CollapseOnce ==
    /\ pc = "c_start"
    /\ once' = collapse_repeats(tokens)
    /\ pc' = "c_once"
    /\ UNCHANGED <<rules, raw_ipa, rulesLocals, corrected_ipa, normalized_ipa,
                   normVars, tokens, twice, pipeVars>>

CollapseTwice ==
    /\ pc = "c_once"
    /\ twice' = collapse_repeats(once)
    /\ pc' = "c_twice"
    /\ UNCHANGED <<rules, raw_ipa, rulesLocals, corrected_ipa, normalized_ipa,
                   normVars, tokens, once, pipeVars>>

NextCollapse == CollapseOnce \/ CollapseTwice

SpecCollapse == InitCollapse /\ [][NextCollapse]_vars

\* C5: collapse_repeats is idempotent: collapsing its own result changes
\* nothing.
C5_CollapseIdempotent == pc = "c_twice" => twice = once

\* a sequence with a repeated boundary marker and a repeat that is collapsed
C5_Witness ==
    /\ pc = "c_twice"
    /\ Len(once) < Len(tokens)
    /\ \E k \in 1..(Len(tokens) - 1) : tokens[k] = Bar /\ tokens[k + 1] = Bar

(***************************************************************************)
(* normalize_ipa on its own, applied and applied again.                    *)
(***************************************************************************)
InitNorm ==
    /\ pc = "n_start"
    /\ ipa_seq \in BSeq(NormChars, MaxNormLen)
    /\ normalized_ipa = <<>> /\ renormalized = <<>>
    /\ rules = AllDisabled /\ raw_ipa = <<>> /\ corrected_ipa = <<>>
    /\ RulesIdle /\ CollapseIdle /\ PipeIdle

Normalize ==
    /\ pc = "n_start"
    /\ normalized_ipa' = normalize_ipa(ipa_seq)
    /\ pc' = "normalized"
    /\ UNCHANGED <<rules, raw_ipa, rulesLocals, corrected_ipa, normVars,
                   collapseVars, pipeVars>>

Renormalize ==
    /\ pc = "normalized"
    /\ renormalized' = normalize_ipa(normalized_ipa)
    /\ pc' = "renormalized"
    /\ UNCHANGED <<rules, raw_ipa, rulesLocals, corrected_ipa, ipa_seq,
                   normalized_ipa, collapseVars, pipeVars>>

NextNorm == Normalize \/ Renormalize

SpecNorm == InitNorm /\ [][NextNorm]_vars

\* the marks normalize_ipa deletes outright
StrippedMarks == {Stress1, Stress2, Nasal}

\* the tokens of ts that are made of stripped marks only
OnlyMarks(ts) ==
    {k \in 1..Len(ts) : \A n \in 1..Len(ts[k]) : ts[k][n] \in StrippedMarks}

\* C6 as claimed: splitting the output of normalize_ipa gives as many tokens
\* as splitting its input.
C6_TokenCountPreserved ==
    pc = "normalized" => Len(split(normalized_ipa)) = Len(split(ipa_seq))

\* C6 as amended: splitting the output of normalize_ipa gives as many tokens
\* as the input has tokens that are not made of stripped marks only; a token
\* made only of stripped marks becomes empty and is lost.
C6_TokenCountLessEmptied ==
    pc = "normalized" =>
        Len(split(normalized_ipa)) =
            Len(split(ipa_seq)) - Cardinality(OnlyMarks(split(ipa_seq)))

\* an input with a token of stripped marks only next to a token that stays
C6_Witness ==
    /\ pc = "normalized"
    /\ OnlyMarks(split(ipa_seq)) # {}
    /\ Len(split(normalized_ipa)) >= 1

\* C10: normalize_ipa is idempotent: normalising its own output changes
\* nothing.
C10_NormalizeIdempotent == pc = "renormalized" => renormalized = normalized_ipa

(***************************************************************************)
(* run_pipeline: the /pipeline endpoint.                                   *)
(*                                                                         *)
(* A JSON object is a function from the keys it carries to their values.   *)
(***************************************************************************)
WAV2VEC2_ID == "facebook/wav2vec2-lv-60-espeak-cv-ft"

IPA2TEXT_ID == "zanegraper/t5-small-ipa-phoneme-to-text"

\* the object f without its key k
Without(f, k) == [x \in DOMAIN f \ {k} |-> f[x]]

\* the object f with key k set to v
With(f, k, v) == [x \in DOMAIN f \cup {k} |-> IF x = k THEN v ELSE f[x]]

\* the rules objects a request is driven with: every complete configuration,
\* each with one key left out, and each with one key the schema does not know
SubmittedRules ==
    UNION {
        {c}
        \cup {Without(c, k) : k \in RuleConfigKeys}
        \cup {With(c, "gliding", Without(c.gliding, k)) : k \in GlidingKeys}
        \cup {With(c, "stopping", Without(c.stopping, k)) : k \in StoppingKeys}
        \cup {With(c, "fronting", TRUE),
              With(c, "gliding", With(c.gliding, "y_to_l", TRUE)),
              With(c, "stopping", With(c.stopping, "f_to_p", TRUE))}
        : c \in RuleConfig }

\* RuleConfig(**rules_dict) succeeds: the three fields without a default are
\* there (keys that are no field are ignored)
Validates(j) == RuleConfigKeys \subseteq DOMAIN j

\* the model RuleConfig(**rules_dict) builds: a switch of GlidingRules or
\* StoppingRules that is not given takes its default, False; keys that are
\* no field are dropped
ParseRuleConfig(j) ==
    [gliding |->
        [k \in GlidingKeys |->
            IF k \in DOMAIN j.gliding THEN j.gliding[k] ELSE FALSE],
     stopping |->
        [k \in StoppingKeys |->
            IF k \in DOMAIN j.stopping THEN j.stopping[k] ELSE FALSE],
     cluster_reduction |-> j.cluster_reduction]

\* transcribe_to_ipa: the text the processor decodes, stripped
transcribe_to_ipa(decoded) == strip(decoded)

\* decode_ipa_to_text: the decoded text is whatever the T5 model makes of ipa
decode_ipa_to_text(ipa) == <<"text of">> \o ipa

InitPipe ==
    /\ pc = "parse"
    /\ submitted \in SubmittedRules
    /\ text \in BSeq(TextChars, MaxTextLen)
    /\ rules = AllDisabled
    /\ raw_ipa = <<>> /\ normalized_ipa = <<>> /\ corrected_ipa = <<>>
    /\ final_text = <<>> /\ response = <<>> /\ trace = <<>>
    /\ RulesIdle /\ NormIdle /\ CollapseIdle

\* rules_dict = json.loads(rules); rule_cfg = RuleConfig(**rules_dict)
ParseRules ==
    /\ pc = "parse"
    /\ Validates(submitted)
    /\ rules' = ParseRuleConfig(submitted)
    /\ pc' = "transcribe"
    /\ UNCHANGED <<raw_ipa, rulesLocals, corrected_ipa, normalized_ipa,
                   normVars, collapseVars, pipeVars>>

\* RuleConfig(**rules_dict) raises: the request fails
RejectRules ==
    /\ pc = "parse"
    /\ ~Validates(submitted)
    /\ pc' = "error"
    /\ UNCHANGED <<rules, raw_ipa, rulesLocals, corrected_ipa, normalized_ipa,
                   normVars, collapseVars, pipeVars>>

\* audio_bytes = await file.read(); raw_ipa = transcribe_to_ipa(audio_bytes)
Transcribe ==
    /\ pc = "transcribe"
    /\ raw_ipa' = transcribe_to_ipa(text)
    /\ trace' = Append(trace, "transcribe")
    /\ pc' = "normalize"
    /\ UNCHANGED <<rules, rulesLocals, corrected_ipa, normalized_ipa,
                   normVars, collapseVars, submitted, text, final_text,
                   response>>

\* normalized_ipa = normalize_ipa(raw_ipa)
NormalizeRaw ==
    /\ pc = "normalize"
    /\ normalized_ipa' = normalize_ipa(raw_ipa)
    /\ trace' = Append(trace, "normalize")
    /\ pc' = "apply_rules"
    /\ UNCHANGED <<rules, raw_ipa, rulesLocals, corrected_ipa, normVars,
                   collapseVars, submitted, text, final_text, response>>

\* corrected_ipa = apply_rules(normalized_ipa, rule_cfg)
ApplyRules ==
    /\ pc = "apply_rules"
    /\ corrected_ipa' = apply_rules(normalized_ipa, rules)
    /\ trace' = Append(trace, "apply_rules")
    /\ pc' = "decode"
    /\ UNCHANGED <<rules, raw_ipa, rulesLocals, normalized_ipa, normVars,
                   collapseVars, submitted, text, final_text, response>>

\* final_text = decode_ipa_to_text(corrected_ipa)
Decode ==
    /\ pc = "decode"
    /\ final_text' = decode_ipa_to_text(corrected_ipa)
    /\ trace' = Append(trace, "decode")
    /\ pc' = "respond"
    /\ UNCHANGED <<rules, raw_ipa, rulesLocals, corrected_ipa, normalized_ipa,
                   normVars, collapseVars, submitted, text, response>>

\* return PipelineResponse(...)
Respond ==
    /\ pc = "respond"
    /\ response' =
         [raw_ipa |-> normalized_ipa,
          corrected_ipa |-> corrected_ipa,
          final_text |-> final_text,
          rules_applied |-> rules,
          wav2vec2_model_used |-> WAV2VEC2_ID,
          t5_model_used |-> IPA2TEXT_ID]
    /\ pc' = "done"
    /\ UNCHANGED <<rules, raw_ipa, rulesLocals, corrected_ipa, normalized_ipa,
                   normVars, collapseVars, submitted, text, final_text, trace>>

NextPipe ==
    \/ ParseRules
    \/ RejectRules
    \/ Transcribe
    \/ NormalizeRaw
    \/ ApplyRules
    \/ Decode
    \/ Respond

SpecPipe == InitPipe /\ [][NextPipe]_vars

\* the object j leaves out a switch of the schema
OmitsSwitch(j) ==
    \/ ~(RuleConfigKeys \subseteq DOMAIN j)
    \/ ~(GlidingKeys \subseteq DOMAIN j.gliding)
    \/ ~(StoppingKeys \subseteq DOMAIN j.stopping)

\* the object j carries a key the schema does not know
CarriesUnknownKey(j) ==
    \/ ~(DOMAIN j \subseteq RuleConfigKeys)
    \/ "gliding" \in DOMAIN j /\ ~(DOMAIN j.gliding \subseteq GlidingKeys)
    \/ "stopping" \in DOMAIN j /\ ~(DOMAIN j.stopping \subseteq StoppingKeys)

\* C7: a submitted configuration that omits a switch of the schema or carries
\* an unknown key fails the request before any pipeline stage runs.
C7_StrictParsing ==
    (pc # "parse" /\ (OmitsSwitch(submitted) \/ CarriesUnknownKey(submitted)))
        => (pc = "error" /\ trace = <<>>)

\* C8: the response's raw_ipa is the string the transcription step produced,
\* its corrected_ipa is apply_rules of the normalised string, and the stages
\* ran in the order transcribe, normalize, apply rules, decode.
C8_RawIsTranscription ==
    pc = "done" =>
        /\ response.raw_ipa = raw_ipa
        /\ response.corrected_ipa = apply_rules(normalize_ipa(raw_ipa), rules)
        /\ trace = <<"transcribe", "normalize", "apply_rules", "decode">>

====
